---- MODULE Spec2Model ----
(***************************************************************************)
(* Model of the bulk e-mail dispatch engine of Email_Auto:                 *)
(*   src/bulk_email_sender_smtp.py  (SMTP backend, with reconnect + retry) *)
(*   src/bulk_email_sender.py       (Gmail API backend, no retry)          *)
(*                                                                         *)
(* One operating-system process at a time runs the script.  The durable    *)
(* state is the quota store (progress_file) and the ledger (log_file);     *)
(* everything else lives in the process and is lost when it ends.          *)
(*                                                                         *)
(* Text values (log cells, error messages, paths) are sequences of         *)
(* tokens; f-string formatting is concatenation and the Python `in` test   *)
(* on a string is token membership.                                        *)
(***************************************************************************)
EXTENDS Integers, Sequences, FiniteSets, TLC

VARIABLES
    backend,            \* "smtp" | "api": which of the two scripts is run
    email_list,         \* the recipient CSV, a sequence of rows
    emails_per_session, \* bulk_send_emails parameter
    today,              \* datetime.now().date()
    progress_file,      \* the pickled quota store on disk
    log_file,           \* the ledger on disk
    run,                \* number of process starts so far
    pc,                 \* position of the process
    daily_limit,        \* DAILY_LIMIT, passed to GmailAccountManager
    accounts,           \* GmailAccountManager.accounts (names that logged in)
    connections,        \* GmailAccountManager.connections
    send_counts,        \* GmailAccountManager.send_counts, an ordered dict
    pending_emails,     \* bulk_send_emails local
    sent_emails,        \* bulk_send_emails local
    log_buffer,         \* lines written to log_file_handle and not flushed
    idx,                \* position of the for loop in pending_emails
    session_count,      \* bulk_send_emails local
    total_sent,         \* bulk_send_emails local
    total_failed,       \* bulk_send_emails local
    account_name,       \* bulk_send_emails local
    success,            \* bulk_send_emails local
    result,             \* bulk_send_emails local
    obs                 \* observer record: history the properties refer to

vars == <<backend, email_list, emails_per_session, today, progress_file,
          log_file, run, pc, daily_limit, accounts, connections, send_counts,
          pending_emails, sent_emails, log_buffer, idx, session_count,
          total_sent, total_failed, account_name, success, result, obs>>

config == <<backend, email_list, emails_per_session, daily_limit>>

locals == <<pending_emails, sent_emails, idx, session_count, total_sent,
            total_failed, account_name, success, result>>

manager == <<accounts, connections, send_counts>>

(***************************************************************************)
(* Bounds of the model.                                                    *)
(***************************************************************************)
MaxRuns == 3      \* process starts
MaxDay == 2       \* calendar days
MaxLimit == 2     \* daily_limit is drawn from 0..MaxLimit
SessionSize == 2  \* emails_per_session
MaxFaults == 1    \* recipients whose processing meets a failure (missing file, error)
MaxKills == 2     \* processes ended where they stood (kills and failed writes)
MaxLoginFaults == 1  \* process starts at which some account fails to log in
MaxIOFaults == 1  \* writes of the quota store or the ledger that fail
MaxCount == 3     \* counts a quota store can hold when get_total_capacity is taken alone

(***************************************************************************)
(* Inputs.                                                                 *)
(***************************************************************************)
\* the quota store: absent, left empty by open(..., 'wb'), or a pickled dict
NoStore == [kind |-> "absent", date |-> 0, counts |-> <<>>]
TruncatedStore == [kind |-> "truncated", date |-> 0, counts |-> <<>>]

\* the ledger file: absent, or its lines
NoLog == [exists |-> FALSE, lines |-> <<>>]

None == "None"
KeyError == "KeyError"

\* credentials/accounts.json (or the *_credentials.json files), in order
account_list == <<"a1", "a2">>

Row(e, n, p) == [email |-> e, name |-> n, pdf_path |-> p]

\* The recipient CSV the runs are given: unique addresses, as the input
\* contract has it.  The second path holds the word "Connection".
RecipientList ==
    << Row(<<"e1">>, <<"n1">>, <<"out/", "e1.pdf">>),
       Row(<<"e2">>, <<"n2">>, <<"out/", "Connection", "_e2.pdf">>),
       Row(<<"e3">>, <<>>,     <<"out/", "e3.pdf">>) >>

AllAccounts == { account_list[i] : i \in DOMAIN account_list }

\* what the transport call inside send_email can do: return, or raise an
\* exception of class `class` whose str(e) is `text`
Reply(class, text) == [class |-> class, text |-> text]

\* the exceptions server.sendmail raises: smtplib reports a dropped connection
\* as SMTPServerDisconnected, with one of two messages
TransportErrors ==
    { Reply("SMTPServerDisconnected", <<"Connection", "unexpectedly", "closed">>),
      Reply("SMTPServerDisconnected", <<"Server", "not", "connected">>),
      Reply("SMTPRecipientsRefused", <<"Recipient", "refused">>) }

\* str(e) of the exceptions _reconnect can raise
ReconnectErrors == { <<"Username", "and", "Password", "not", "accepted">> }

(***************************************************************************)
(* Python dict with insertion order: a sequence of <<key, value>> pairs.   *)
(***************************************************************************)
DictKeys(d) == { d[i][1] : i \in DOMAIN d }

DictGet(d, k, default) ==
    IF k \in DictKeys(d)
    THEN d[CHOOSE i \in DOMAIN d : d[i][1] = k][2]
    ELSE default

DictSet(d, k, v) ==
    IF k \in DictKeys(d)
    THEN [i \in DOMAIN d |-> IF d[i][1] = k THEN <<k, v>> ELSE d[i]]
    ELSE Append(d, <<k, v>>)

(***************************************************************************)
(* GmailAccountManager                                                     *)
(***************************************************************************)
\* variant: the date test left out
load_progress_any_date(initial, store, day) ==
    IF store.kind = "absent" THEN initial ELSE store.counts

\* load_progress: send_counts is {} from __init__; a store of today's date
\* replaces it by the stored counts, a store of another date by {}.
load_progress(initial, store, day) ==
    IF store.kind = "absent"
    THEN initial
    ELSE IF store.date = day THEN store.counts ELSE <<>>

\* save_progress, once the file is written and closed
save_progress(counts, day) == [kind |-> "pickle", date |-> day, counts |-> counts]

\* load_accounts / setup_account: every entry that logs in gets a zero count
\* unless it has one already; entries that fail to log in are skipped.
RECURSIVE load_accounts(_, _, _)
load_accounts(counts, auth, i) ==
    IF i > Len(account_list)
    THEN counts
    ELSE LET name == account_list[i]
             next == IF name \in auth /\ name \notin DictKeys(counts)
                     THEN DictSet(counts, name, 0)
                     ELSE counts
         IN  load_accounts(next, auth, i + 1)

\* variant: the limit test written `<=`
available_inclusive(counts, limit) ==
    SelectSeq(counts, LAMBDA e : e[2] <= limit)

\* the list comprehension of get_available_account
available(counts, limit) ==
    SelectSeq(counts, LAMBDA e : e[2] < limit)

\* variant: the first element with the greatest key
PyMax(seq) ==
    LET i == CHOOSE i \in DOMAIN seq :
                 /\ \A j \in DOMAIN seq : seq[i][2] >= seq[j][2]
                 /\ \A j \in DOMAIN seq : j < i => seq[j][2] < seq[i][2]
    IN  seq[i][1]

\* Python's min(seq, key=...): the first element with the least key
PyMin(seq) ==
    LET i == CHOOSE i \in DOMAIN seq :
                 /\ \A j \in DOMAIN seq : seq[i][2] <= seq[j][2]
                 /\ \A j \in DOMAIN seq : j < i => seq[j][2] > seq[i][2]
    IN  seq[i][1]

\* variant: the limit is not looked at
get_available_account_no_limit(counts, limit, accts) ==
    IF counts = <<>>
    THEN None
    ELSE IF PyMin(counts) \in accts THEN PyMin(counts) ELSE KeyError

\* get_available_account: None, the chosen name, or the KeyError raised by
\* self.accounts[account_name] when the name did not log in in this process.
get_available_account(counts, limit, accts) ==
    LET avail == available(counts, limit)
    IN  IF avail = <<>>
        THEN None
        ELSE IF PyMin(avail) \in accts THEN PyMin(avail) ELSE KeyError

\* get_total_capacity: sum(self.daily_limit - c for c in send_counts.values())
RECURSIVE get_total_capacity(_, _)
get_total_capacity(counts, limit) ==
    IF counts = <<>>
    THEN 0
    ELSE (limit - Head(counts)[2]) + get_total_capacity(Tail(counts), limit)

\* variant: a send is counted twice
record_send_twice(counts, name) == DictSet(counts, name, DictGet(counts, name, 0) + 2)

\* record_send, the in-memory part
record_send(counts, name) == DictSet(counts, name, DictGet(counts, name, 0) + 1)

(***************************************************************************)
(* The ledger file and csv.DictReader                                      *)
(***************************************************************************)
\* the header row; the timestamp and name columns are left out of the model
Header == << <<"email">>, <<"account_used">>, <<"status">>, <<"detail">> >>

LogRow(email, account, status, detail) ==
    << email, <<account>>, <<status>>, detail >>

\* row.get(key) of a DictReader row: the first line of the file gives the
\* field names, whatever it holds; a missing key reads as Python's None.
NoneCell == <<"<None>">>

RowGet(fieldnames, line, key) ==
    IF \E i \in DOMAIN fieldnames : fieldnames[i] = key
    THEN line[CHOOSE i \in DOMAIN fieldnames :
                  /\ fieldnames[i] = key
                  /\ \A j \in DOMAIN fieldnames : fieldnames[j] = key => j <= i]
    ELSE NoneCell

\* the sent_emails set built from the log
read_sent_emails(file) ==
    IF ~file.exists \/ file.lines = <<>>
    THEN {}
    ELSE LET lines == file.lines
         IN  { RowGet(lines[1], lines[i], <<"email">>) :
                 i \in { j \in 2..Len(lines) :
                           RowGet(lines[1], lines[j], <<"status">>) = <<"sent">> } }

\* variant: the filter left out
filter_pending_keep_all(list, sent) == list

\* pending_emails after the filter
filter_pending(list, sent) ==
    SelectSeq(list, LAMBDA e : e.email \notin sent)

(***************************************************************************)
(* send_email and the retry test                                           *)
(***************************************************************************)
\* str(FileNotFoundError(f"Attachment not found: {attachment_path}"))
NotFoundMsg(path) == <<"Attachment", "not", "found:">> \o path

Contains(text, word) == \E i \in DOMAIN text : text[i] = word

\* the condition of the `if` that guards the reconnect and retry
IsTransient(text) ==
    Contains(text, "SMTPServerDisconnected") \/ Contains(text, "Connection")

\* what the transport can answer: "ok" (the message id, for the API) or an error
Ok == <<"ok">>
Accepted == Reply("none", Ok)
TransportReplies == {Accepted} \cup TransportErrors

\* the (success, result) pair send_email returns: the attachment is looked up
\* first, and the transport is only called when the file exists
send_email(path, file_exists, reply) ==
    IF ~file_exists
    THEN <<FALSE, NotFoundMsg(path)>>
    ELSE IF reply = Accepted THEN <<TRUE, Ok>> ELSE <<FALSE, reply.text>>

(***************************************************************************)
(* State                                                                   *)
(***************************************************************************)
Running == {"select", "send", "reconnect", "resend", "record", "save_open",
            "save_dump", "log_sent", "flush", "pace", "close"}

Stopped == {"idle", "done", "dead", "no_accounts"}

\* what the observer keeps beside the program's own state
ObsInit ==
    [ killed         |-> FALSE,  \* some process was ended by a kill or a failed write
      kills          |-> 0,      \* how many times
      faults         |-> 0,      \* recipients that met a failure so far
      login_faults   |-> 0,      \* process starts with a failed login so far
      io_faults      |-> 0,      \* writes that failed so far
      unpersisted    |-> FALSE,  \* a write of this process failed
      last_exit      |-> "none", \* how the last process to end ended
      prev_exit      |-> "none", \* how the process before the current one ended
      exhausted      |-> FALSE,  \* this run met get_available_account = None
      loaded         |-> <<>>,   \* send_counts when bulk_send_emails began
      start_lines    |-> 0,      \* lines of log_file when bulk_send_emails began
      start_pending  |-> 0,      \* len(pending_emails) when the loop began
      capacity       |-> 0,      \* "Daily capacity remaining" as last printed
      start_day      |-> 0,      \* the date load_progress read
      sends_today    |-> 0,      \* transport successes of this run on the current date
      transported    |-> {},     \* e-mails handed to the transport in this run
      delivered      |-> {},     \* e-mails the transport accepted in this run
      prev_delivered |-> {},     \* the same, of the previous process
      unflushed      |-> FALSE,  \* a transport success whose row is not on disk
      attempts       |-> 0,      \* send_email calls for the current recipient
      transport_calls |-> 0,     \* transport calls for the current recipient
      reconnects     |-> 0,      \* _reconnect calls for the current recipient
      reconnect_ok   |-> FALSE,  \* a _reconnect for the current recipient returned
      load_error     |-> FALSE,  \* load_progress raised in this process
      first_fail     |-> "none", \* why the first attempt failed
      first_class    |-> "none", \* class of the exception the transport raised then
      first_result   |-> <<>>,   \* result of the first attempt
      count_before   |-> 0,      \* count of the chosen account when chosen
      conn_before    |-> "none", \* its connection when chosen
      processed      |-> 0,      \* recipients this run has finished with
      pause          |-> "none", \* the last sleep taken
      long_after     |-> {},     \* k: the long break was slept after the k-th recipient
      normal_after   |-> {},     \* k: the normal delay was slept after the k-th recipient
      attempted      |-> <<>>    \* e-mails send_email was first called for, in order
    ]

\* the obs fields that describe the recipient being processed
ObsPerRecipient(o) ==
    [o EXCEPT !.attempts = 0, !.transport_calls = 0, !.reconnects = 0,
              !.reconnect_ok = FALSE,
              !.first_fail = "none", !.first_class = "none",
              !.first_result = <<>>, !.count_before = 0]

LocalsInit ==
    /\ pending_emails = <<>>
    /\ sent_emails = {}
    /\ idx = 1
    /\ session_count = 0
    /\ total_sent = 0
    /\ total_failed = 0
    /\ account_name = None
    /\ success = FALSE
    /\ result = <<>>

ManagerInit ==
    /\ accounts = {}
    /\ connections = <<>>
    /\ send_counts = <<>>

Init ==
    /\ backend \in {"smtp", "api"}
    /\ email_list = RecipientList
    /\ emails_per_session = SessionSize
    /\ daily_limit \in 0..MaxLimit    \* DAILY_LIMIT is passed on as it is written
    /\ today = 1
    /\ progress_file = NoStore
    /\ log_file = NoLog
    /\ run = 0
    /\ pc = "idle"
    /\ log_buffer = <<>>
    /\ ManagerInit
    /\ LocalsInit
    /\ obs = ObsInit

\* what the observer keeps of a process that is gone
ObsGone(o, exit) ==
    [ObsInit EXCEPT !.killed = o.killed
                                  \/ exit \in {"killed", "killed_unflushed", "io_error"},
                    !.io_faults = IF exit = "io_error"
                                  THEN o.io_faults + 1 ELSE o.io_faults,
                    !.unpersisted = (exit = "io_error"),
                    !.kills = IF exit \in {"killed", "killed_unflushed"}
                              THEN o.kills + 1 ELSE o.kills,
                    !.faults = o.faults,
                    !.login_faults = o.login_faults,
                    !.last_exit = exit,
                    !.prev_exit = o.prev_exit,
                    !.delivered = o.delivered,
                    !.prev_delivered = o.prev_delivered]

\* the process is gone: nothing of its memory is left
ProcessGone ==
    /\ accounts' = {}
    /\ connections' = <<>>
    /\ send_counts' = <<>>
    /\ pending_emails' = <<>>
    /\ sent_emails' = {}
    /\ idx' = 1
    /\ session_count' = 0
    /\ total_sent' = 0
    /\ total_failed' = 0
    /\ account_name' = None
    /\ success' = FALSE
    /\ result' = <<>>
    /\ log_buffer' = <<>>

\* variant: the list is walked from its end
email_data_from_end == pending_emails[Len(pending_emails) + 1 - idx]

\* the current row of the for loop
email_data == pending_emails[idx]

\* the file after the buffered lines reach it
Flushed(file, buffer) == [file EXCEPT !.lines = file.lines \o buffer]

(***************************************************************************)
(* Actions                                                                 *)
(***************************************************************************)
\* The script is started: GmailAccountManager(...), load_accounts() (or
\* setup_all_accounts) with `auth` the accounts that log in, then
\* bulk_send_emails up to the head of its for loop.
StartProcess(auth) ==
    /\ pc \in Stopped
    /\ run < MaxRuns
    /\ auth = AllAccounts \/ obs.login_faults < MaxLoginFaults
    /\ run' = run + 1
    /\ UNCHANGED <<config, today, progress_file>>
    /\ IF progress_file.kind = "truncated"
       THEN \* pickle.load raises EOFError inside __init__
            /\ pc' = "dead"
            /\ ProcessGone
            /\ UNCHANGED log_file
            /\ obs' = [ObsInit EXCEPT !.killed = obs.killed,
                                      !.kills = obs.kills,
                                      !.faults = obs.faults,
                                      !.login_faults = obs.login_faults,
                                      !.io_faults = obs.io_faults,
                                      !.last_exit = "exception",
                                      !.load_error = TRUE,
                                      !.prev_exit = obs.last_exit,
                                      !.prev_delivered = obs.delivered]
       ELSE LET counts == load_accounts(
                              load_progress(<<>>, progress_file, today), auth, 1)
                sent   == read_sent_emails(log_file)
            IN  /\ accounts' = auth
                /\ connections' = [a \in auth |-> "login"]
                /\ send_counts' = counts
                /\ idx' = 1
                /\ session_count' = 0
                /\ total_sent' = 0
                /\ total_failed' = 0
                /\ account_name' = None
                /\ success' = FALSE
                /\ result' = <<>>
                /\ obs' = [ObsInit EXCEPT !.killed = obs.killed,
                                          !.kills = obs.kills,
                                          !.faults = obs.faults,
                                          !.login_faults =
                                              IF auth = AllAccounts
                                              THEN obs.login_faults
                                              ELSE obs.login_faults + 1,
                                          !.io_faults = obs.io_faults,
                                          !.prev_exit = obs.last_exit,
                                          !.prev_delivered = obs.delivered,
                                          !.loaded = counts,
                                          !.start_lines = Len(log_file.lines),
                                          !.start_day = today,
                                          !.capacity =
                                              IF auth = {} THEN 0
                                              ELSE get_total_capacity(counts, daily_limit),
                                          !.start_pending =
                                              IF auth = {} THEN 0
                                              ELSE Len(filter_pending(email_list, sent))]
                /\ IF auth = {}
                   THEN \* "No accounts configured": bulk_send_emails is not called
                        /\ pc' = "no_accounts"
                        /\ pending_emails' = <<>>
                        /\ sent_emails' = {}
                        /\ log_buffer' = <<>>
                        /\ UNCHANGED log_file
                   ELSE /\ pc' = "select"
                        /\ sent_emails' = sent
                        /\ pending_emails' = filter_pending(email_list, sent)
                        /\ log_file' = [log_file EXCEPT !.exists = TRUE]
                        /\ log_buffer' = IF log_file.exists THEN <<>> ELSE <<Header>>

\* for email_data in pending_emails: the list is exhausted
LoopEnd ==
    /\ pc = "select"
    /\ idx > Len(pending_emails)
    /\ pc' = "close"
    /\ UNCHANGED <<config, today, progress_file, log_file, run, manager, locals,
                   log_buffer, obs>>

\* get_available_account() and the `if not server: break` after it
Select ==
    /\ pc = "select"
    /\ idx <= Len(pending_emails)
    /\ LET got == get_available_account(send_counts, daily_limit, accounts)
       IN  IF got = KeyError
           THEN \* the exception ends the process; the interpreter closes the log
                /\ pc' = "dead"
                /\ log_file' = Flushed(log_file, log_buffer)
                /\ ProcessGone
                /\ obs' = ObsGone(obs, "exception")
           ELSE /\ IF got = None
                   THEN /\ pc' = "close"
                        /\ obs' = [obs EXCEPT !.exhausted = TRUE]
                        /\ UNCHANGED account_name
                   ELSE /\ pc' = "send"
                        /\ account_name' = got
                        /\ obs' = [ObsPerRecipient(obs) EXCEPT
                                       !.count_before = DictGet(send_counts, got, 0),
                                       !.conn_before = connections[got]]
                /\ UNCHANGED <<log_file, log_buffer, manager, pending_emails,
                               sent_emails, idx, session_count, total_sent,
                               total_failed, success, result>>
    /\ UNCHANGED <<config, today, progress_file, run>>

\* one call of send_email: the first (pc = "send") or the retry (pc = "resend")
SendEmail(file_exists, reply) ==
    /\ pc \in {"send", "resend"}
    /\ (file_exists /\ reply = Accepted) \/ obs.faults < MaxFaults \/ pc = "resend"
    /\ LET ret == send_email(email_data.pdf_path, file_exists, reply)
       IN  /\ success' = ret[1]
           /\ result' = ret[2]
           /\ pc' = IF pc = "send" /\ backend = "smtp" /\ ~ret[1] /\ IsTransient(ret[2])
                    THEN "reconnect"
                    ELSE "record"
           /\ obs' = [obs EXCEPT
                  !.faults = IF ret[1] \/ pc = "resend" THEN @ ELSE @ + 1,
                  !.attempts = @ + 1,
                  !.sends_today = IF ret[1] THEN @ + 1 ELSE @,
                  !.attempted = IF pc = "send" THEN Append(@, email_data.email) ELSE @,
                  !.transport_calls = IF file_exists THEN @ + 1 ELSE @,
                  !.transported = IF file_exists THEN @ \cup {email_data.email} ELSE @,
                  !.delivered = IF ret[1] THEN @ \cup {email_data.email} ELSE @,
                  !.unflushed = ret[1],
                  !.first_fail = IF pc = "send"
                                 THEN (IF ret[1] THEN "none"
                                       ELSE IF file_exists THEN "transport" ELSE "missing")
                                 ELSE @,
                  !.first_class = IF pc = "send"
                                  THEN (IF file_exists THEN reply.class ELSE "none")
                                  ELSE @,
                  !.first_result = IF pc = "send" THEN ret[2] ELSE @]
    /\ UNCHANGED <<config, today, progress_file, log_file, run, manager,
                   pending_emails, sent_emails, log_buffer, idx, session_count,
                   total_sent, total_failed, account_name>>

\* variant: the second send is made whether the reconnect worked or not
ReconnectAlwaysResend(ok, err) ==
    /\ pc = "reconnect"
    /\ IF ok
       THEN /\ connections' = [connections EXCEPT ![account_name] = "reconnected"]
            /\ UNCHANGED result
       ELSE /\ result' = err
            /\ UNCHANGED connections
    /\ pc' = "resend"
    /\ obs' = [obs EXCEPT !.reconnects = @ + 1, !.reconnect_ok = ok]
    /\ UNCHANGED <<config, today, progress_file, log_file, run,
                   accounts, send_counts, pending_emails, sent_emails, log_buffer,
                   idx, session_count, total_sent, total_failed, account_name,
                   success>>

\* account_manager._reconnect(account_name) inside the try
Reconnect(ok, err) ==
    /\ pc = "reconnect"
    /\ IF ok
       THEN /\ connections' = [connections EXCEPT ![account_name] = "reconnected"]
            /\ pc' = "resend"
            /\ UNCHANGED result
       ELSE /\ result' = err
            /\ pc' = "record"
            /\ UNCHANGED connections
    /\ obs' = [obs EXCEPT !.reconnects = @ + 1, !.reconnect_ok = ok]
    /\ UNCHANGED <<config, today, progress_file, log_file, run,
                   accounts, send_counts, pending_emails, sent_emails, log_buffer,
                   idx, session_count, total_sent, total_failed, account_name,
                   success>>

\* if success: record_send, first statement (the count in memory)
RecordSend ==
    /\ pc = "record"
    /\ success
    /\ send_counts' = record_send(send_counts, account_name)
    /\ pc' = "save_open"
    /\ UNCHANGED <<config, today, progress_file, log_file, run,
                   accounts, connections, locals, log_buffer, obs>>

\* save_progress: open(progress_file, 'wb') empties the file
SaveOpen ==
    /\ pc = "save_open"
    /\ progress_file' = TruncatedStore
    /\ pc' = "save_dump"
    /\ UNCHANGED <<config, today, log_file, run, manager, locals, log_buffer, obs>>

\* save_progress: pickle.dump and the close at the end of the with block
SaveDump ==
    /\ pc = "save_dump"
    /\ progress_file' = save_progress(send_counts, today)
    /\ pc' = "log_sent"
    /\ UNCHANGED <<config, today, log_file, run, manager, locals, log_buffer, obs>>

\* log_writer.writerow([..., 'sent', result]); total_sent += 1
LogSent ==
    /\ pc = "log_sent"
    /\ log_buffer' = Append(log_buffer,
                            LogRow(email_data.email, account_name, "sent", result))
    /\ total_sent' = total_sent + 1
    /\ pc' = "flush"
    /\ UNCHANGED <<config, today, progress_file, log_file, run, manager,
                   pending_emails, sent_emails, idx, session_count, total_failed,
                   account_name, success, result, obs>>

\* variant: the send is counted whatever its outcome
LogFailedCounting ==
    /\ pc = "record"
    /\ ~success
    /\ send_counts' = record_send(send_counts, account_name)
    /\ log_buffer' = Append(log_buffer,
                            LogRow(email_data.email, account_name, "failed", result))
    /\ total_failed' = total_failed + 1
    /\ pc' = "flush"
    /\ UNCHANGED <<config, today, progress_file, log_file, run, accounts,
                   connections, pending_emails, sent_emails, idx, session_count,
                   total_sent, account_name, success, result, obs>>

\* variant: the failure is recorded but not counted
LogFailedUncounted ==
    /\ pc = "record"
    /\ ~success
    /\ log_buffer' = Append(log_buffer,
                            LogRow(email_data.email, account_name, "failed", result))
    /\ pc' = "flush"
    /\ UNCHANGED <<config, today, progress_file, log_file, run, manager,
                   pending_emails, sent_emails, idx, session_count, total_sent,
                   total_failed, account_name, success, result, obs>>

\* else: log_writer.writerow([..., 'failed', result]); total_failed += 1
LogFailed ==
    /\ pc = "record"
    /\ ~success
    /\ log_buffer' = Append(log_buffer,
                            LogRow(email_data.email, account_name, "failed", result))
    /\ total_failed' = total_failed + 1
    /\ pc' = "flush"
    /\ UNCHANGED <<config, today, progress_file, log_file, run, manager,
                   pending_emails, sent_emails, idx, session_count, total_sent,
                   account_name, success, result, obs>>

\* variant: the flush left out, the lines stay in the buffer
FlushNothing ==
    /\ pc = "flush"
    /\ session_count' = session_count + 1
    /\ pc' = "pace"
    /\ obs' = [obs EXCEPT !.processed = @ + 1]
    /\ UNCHANGED <<config, today, progress_file, log_file, log_buffer, run,
                   manager, pending_emails, sent_emails, idx, total_sent,
                   total_failed, account_name, success, result>>

\* log_file_handle.flush(); session_count += 1
Flush ==
    /\ pc = "flush"
    /\ log_file' = Flushed(log_file, log_buffer)
    /\ log_buffer' = <<>>
    /\ session_count' = session_count + 1
    /\ pc' = "pace"
    /\ obs' = [obs EXCEPT !.unflushed = FALSE, !.processed = @ + 1]
    /\ UNCHANGED <<config, today, progress_file, run, manager, pending_emails,
                   sent_emails, idx, total_sent, total_failed, account_name,
                   success, result>>

\* variant: the session counter is not reset after the long break
PaceNoReset ==
    /\ pc = "pace"
    /\ IF session_count >= emails_per_session
       THEN obs' = [obs EXCEPT !.pause = "long",
                               !.long_after = @ \cup {obs.processed}]
       ELSE obs' = [obs EXCEPT !.pause = "normal",
                               !.normal_after = @ \cup {obs.processed}]
    /\ idx' = idx + 1
    /\ pc' = "select"
    /\ UNCHANGED <<config, today, progress_file, log_file, run, manager,
                   pending_emails, sent_emails, log_buffer, session_count,
                   total_sent, total_failed, account_name, success, result>>

\* the anti-spam delay, then the next turn of the loop
Pace ==
    /\ pc = "pace"
    /\ IF session_count >= emails_per_session
       THEN /\ session_count' = 0
            /\ obs' = [obs EXCEPT !.pause = "long",
                                  !.long_after = @ \cup {obs.processed}]
       ELSE /\ UNCHANGED session_count
            /\ obs' = [obs EXCEPT !.pause = "normal",
                                  !.normal_after = @ \cup {obs.processed}]
    /\ idx' = idx + 1
    /\ pc' = "select"
    /\ UNCHANGED <<config, today, progress_file, log_file, run, manager,
                   pending_emails, sent_emails, log_buffer, total_sent,
                   total_failed, account_name, success, result>>

\* after the loop: log_file_handle.close(), close_all() (SMTP), the summary
Close ==
    /\ pc = "close"
    /\ log_file' = Flushed(log_file, log_buffer)
    /\ log_buffer' = <<>>
    /\ connections' = IF backend = "smtp"
                      THEN [a \in DOMAIN connections |-> "closed"]
                      ELSE connections
    /\ pc' = "done"
    /\ obs' = [obs EXCEPT !.last_exit = "normal"]
    /\ UNCHANGED <<config, today, progress_file, run, accounts,
                   send_counts, locals>>

\* the process is killed: the script installs no signal handler, so a stop
\* request (SIGTERM, SIGKILL) ends it where it stands and buffered lines are lost
Kill ==
    /\ pc \in Running
    /\ obs.kills + obs.io_faults < MaxKills
    /\ pc' = "dead"
    /\ ProcessGone
    /\ obs' = ObsGone(obs, IF obs.unflushed THEN "killed_unflushed" ELSE "killed")
    /\ UNCHANGED <<config, today, progress_file, log_file, run>>

\* variant: the failed write is swallowed and the loop goes on
IOErrorSwallowed ==
    /\ pc \in {"save_open", "save_dump", "flush"}
    /\ obs.io_faults < MaxIOFaults
    /\ obs.kills + obs.io_faults < MaxKills
    /\ pc' = IF pc = "flush" THEN "pace" ELSE "log_sent"
    /\ obs' = [obs EXCEPT !.io_faults = @ + 1, !.unpersisted = TRUE]
    /\ UNCHANGED <<config, today, progress_file, log_file, run, manager, locals,
                   log_buffer>>

\* A write fails: open(progress_file, 'wb') or pickle.dump in save_progress,
\* or log_file_handle.flush(), raises OSError.  Nothing in the loop catches
\* it, so it ends the process; the lines a failed flush could not write are
\* lost, the others reach the ledger when the interpreter closes the file.
IOError ==
    /\ pc \in {"save_open", "save_dump", "flush"}
    /\ obs.io_faults < MaxIOFaults
    /\ obs.kills + obs.io_faults < MaxKills
    /\ pc' = "dead"
    /\ log_file' = IF pc = "flush" THEN log_file ELSE Flushed(log_file, log_buffer)
    /\ ProcessGone
    /\ obs' = ObsGone(obs, "io_error")
    /\ UNCHANGED <<config, today, progress_file, run>>

\* The calendar date changes.  The program reads the date in load_progress
\* and in save_progress only, so the change is taken between two processes
\* or right before save_progress reads it.
Midnight ==
    /\ today < MaxDay
    /\ pc \in Stopped \cup {"save_dump"}
    /\ today' = today + 1
    /\ obs' = [obs EXCEPT !.sends_today = 0]
    /\ UNCHANGED <<config, progress_file, log_file, run, pc, manager, locals,
                   log_buffer>>

Next ==
    \/ \E auth \in SUBSET AllAccounts : StartProcess(auth)
    \/ LoopEnd
    \/ Select
    \/ \E file_exists \in BOOLEAN, reply \in TransportReplies :
          SendEmail(file_exists, reply)
    \/ \E ok \in BOOLEAN, err \in ReconnectErrors : Reconnect(ok, err)
    \/ RecordSend
    \/ SaveOpen
    \/ SaveDump
    \/ LogSent
    \/ LogFailed
    \/ Flush
    \/ Pace
    \/ Close
    \/ Kill
    \/ IOError
    \/ Midnight

Spec == Init /\ [][Next]_vars

(***************************************************************************)
(* get_total_capacity on its own: every quota state a store of today can   *)
(* hand to a run, the counts of an earlier run with a higher daily_limit   *)
(* included.                                                               *)
(***************************************************************************)
QuotaStates ==
    { << <<"a1", c1>> >> : c1 \in 0..MaxCount }
        \cup { << <<"a1", c1>>, <<"a2", c2>> >> : c1 \in 0..MaxCount, c2 \in 0..MaxCount }

CapacityInit ==
    /\ backend \in {"smtp", "api"}
    /\ email_list = RecipientList
    /\ emails_per_session = SessionSize
    /\ daily_limit \in 1..MaxLimit
    /\ today = 1
    /\ progress_file = NoStore
    /\ log_file = NoLog
    /\ run = 1
    /\ pc = "capacity"
    /\ log_buffer = <<>>
    /\ send_counts \in QuotaStates
    /\ accounts = DictKeys(send_counts)
    /\ connections = [a \in DictKeys(send_counts) |-> "login"]
    /\ LocalsInit
    /\ obs = [ObsInit EXCEPT !.loaded = send_counts]

\* print(f"Daily capacity remaining: {account_manager.get_total_capacity()}")
GetTotalCapacity ==
    /\ pc = "capacity"
    /\ obs' = [obs EXCEPT !.capacity = get_total_capacity(send_counts, daily_limit)]
    /\ pc' = "reported"
    /\ UNCHANGED <<config, today, progress_file, log_file, run, manager, locals,
                   log_buffer>>

CapacityNext == GetTotalCapacity

CapacitySpec == CapacityInit /\ [][CapacityNext]_vars

(***************************************************************************)
(* Vocabulary of the properties                                            *)
(***************************************************************************)
\* the e-mails of the 'sent' records among the first n lines of the ledger,
\* read record by record (column 1 the address, column 3 the status)
SentRecords(n) ==
    { log_file.lines[i][1] :
        i \in { j \in 1..n : log_file.lines[j][3] = <<"sent">> } }

\* the 'sent' records the ledger held when the current run began
SentAtStart == SentRecords(obs.start_lines)

\* the lines the current run has put on disk
RunLines == SubSeq(log_file.lines, obs.start_lines + 1, Len(log_file.lines))

IsDataRow(line) == line[3] \in {<<"sent">>, <<"failed">>}

DataRows(lines) == SelectSeq(lines, IsDataRow)

InRun == pc \in Running \cup {"done"}

(***************************************************************************)
(* C1  Idempotence across runs.  As long as no process has been killed, a  *)
(* recipient whose e-mail has a 'sent' record in the ledger when a run     *)
(* begins is never handed to the transport in that run, and the ledger     *)
(* never holds two 'sent' records for one e-mail (the recipient list has   *)
(* unique e-mails).                                                        *)
(***************************************************************************)
C1_Idempotence ==
    ~obs.killed =>
        /\ InRun => obs.transported \cap SentAtStart = {}
        /\ \A i, j \in DOMAIN log_file.lines :
               ( /\ i < j
                 /\ log_file.lines[i][3] = <<"sent">>
                 /\ log_file.lines[j][3] = <<"sent">> )
               => log_file.lines[i][1] # log_file.lines[j][1]

\* a later run that began with 'sent' records, still had pending recipients
\* and has called the transport
C1_Witness ==
    /\ ~obs.killed
    /\ run >= 2
    /\ InRun
    /\ SentAtStart # {}
    /\ obs.transported # {}

(***************************************************************************)
(* C2  Quota invariant.  In every state of a run, every account whose      *)
(* count was <= daily_limit when loaded has a count <= daily_limit, in     *)
(* memory and in the quota store, and the account get_available_account    *)
(* returned had a count < daily_limit when it was returned.                *)
(***************************************************************************)
C2_QuotaInvariant ==
    /\ \A i \in DOMAIN send_counts :
           DictGet(obs.loaded, send_counts[i][1], 0) <= daily_limit
           => send_counts[i][2] <= daily_limit
    /\ \A i \in DOMAIN progress_file.counts :
           progress_file.counts[i][2] <= daily_limit
    /\ pc \in {"send", "reconnect", "resend", "record"}
       => /\ DictGet(send_counts, account_name, 0) < daily_limit
          /\ obs.count_before < daily_limit

\* an account has reached its limit and the run has met it
C2_Witness ==
    /\ pc = "send"
    /\ \E i \in DOMAIN send_counts : send_counts[i][2] = daily_limit
    /\ daily_limit > 1

(***************************************************************************)
(* C3  Load-balanced selection (the claim as stated).  Whenever the loop   *)
(* is about to call get_available_account, the call returns None exactly   *)
(* when no account has a count < daily_limit, and otherwise returns an     *)
(* account whose count is the least among the accounts with a count        *)
(* < daily_limit.  The code raises KeyError instead when that account is   *)
(* known from the quota store only.                                        *)
(***************************************************************************)
C3_SelectsMinimum ==
    (pc = "select" /\ idx <= Len(pending_emails)) =>
        LET got   == get_available_account(send_counts, daily_limit, accounts)
            under == { i \in DOMAIN send_counts : send_counts[i][2] < daily_limit }
        IN  /\ (got = None) <=> (under = {})
            /\ under # {} =>
                   \E i \in under :
                       /\ send_counts[i][1] = got
                       /\ \A j \in under : send_counts[i][2] <= send_counts[j][2]

(***************************************************************************)
(* C4  Crash safety (the claim as stated).  In the run that follows a      *)
(* process killed between a transport success and the flush of its 'sent'  *)
(* record, at most one recipient that the killed process had delivered is  *)
(* pending again, and every recipient left out of the pending set has a    *)
(* 'sent' record.  The code breaks the first part when the ledger has lost *)
(* its header row to an earlier kill.                                      *)
(***************************************************************************)
PendingSet == { pending_emails[i].email : i \in DOMAIN pending_emails }

C4_CrashSafety ==
    (pc \in Running /\ obs.prev_exit = "killed_unflushed") =>
        /\ Cardinality(PendingSet \cap obs.prev_delivered) <= 1
        /\ \A i \in DOMAIN email_list :
               email_list[i].email \notin PendingSet
               => email_list[i].email \in SentAtStart

(***************************************************************************)
(* C5  Failure isolation.  While a recipient's send has not succeeded, no  *)
(* step of its processing changes an account's count or rewrites the quota *)
(* store; a failed outcome appends one 'failed' record for the recipient,  *)
(* which the flush puts on disk; and the loop then moves to the next       *)
(* pending recipient, for which an account is selected again.              *)
(***************************************************************************)
FailedRow == LogRow(email_data.email, account_name, "failed", result)

C5_Step ==
    (pc \in {"send", "reconnect", "resend", "record", "flush", "pace"}
        /\ ~success' /\ pc' # "dead") =>
        /\ send_counts' = send_counts
        /\ progress_file' = progress_file
        /\ (pc = "record" => log_buffer' = Append(log_buffer, FailedRow))
        /\ (pc = "flush" =>
              /\ log_file'.lines # <<>>
              /\ log_file'.lines[Len(log_file'.lines)] = FailedRow
              /\ log_buffer' = <<>>)
        /\ (pc = "pace" =>
              /\ pc' = "select"
              /\ idx' = idx + 1
              /\ idx' <= Len(pending_emails) =>
                    get_available_account(send_counts', daily_limit, accounts')
                        \notin {None, KeyError})

C5_FailureIsolation == [][C5_Step]_vars

\* a recipient failed, its record is on disk, and the next one is being sent
C5_Witness ==
    /\ pc = "send"
    /\ idx >= 2
    /\ total_failed >= 1
    /\ ~success
    /\ log_file.lines[Len(log_file.lines)][3] = <<"failed">>

(***************************************************************************)
(* C6  Capacity exhaustion stops the run.  Once get_available_account has  *)
(* returned None the run only closes: no account is under its limit, no    *)
(* record was written for the current or a later pending recipient, the    *)
(* transport was called for earlier recipients only, and the run ends      *)
(* normally.  With 3 recipients, 1 account of limit 2 and no failure, the  *)
(* run ends with exactly 2 'sent' records, count = 2 and 1 remaining.      *)
(***************************************************************************)
C6_ExhaustionStops ==
    /\ obs.exhausted =>
          /\ pc \in {"close", "done"}
          /\ available(send_counts, daily_limit) = <<>>
          /\ idx <= Len(pending_emails)
          /\ DataRows(log_buffer) = <<>>
          /\ Len(DataRows(RunLines)) = idx - 1
          /\ \A e \in obs.transported :
                 \E i \in 1..(idx - 1) : pending_emails[i].email = e
          /\ pc = "done" => obs.last_exit = "normal"
    /\ ( /\ pc = "done"
         /\ run = 1
         /\ Len(send_counts) = 1
         /\ daily_limit = 2
         /\ Len(pending_emails) = 3
         /\ obs.faults = 0 ) =>
          /\ obs.exhausted
          /\ total_sent = 2
          /\ total_failed = 0
          /\ Len(pending_emails) - total_sent - total_failed = 1
          /\ send_counts[1][2] = 2
          /\ Len(DataRows(RunLines)) = 2
          /\ \A i \in 1..2 : DataRows(RunLines)[i][3] = <<"sent">>

\* the end of the 3-recipient, 1-account, limit-2 run
C6_Witness ==
    /\ pc = "done"
    /\ run = 1
    /\ Len(send_counts) = 1
    /\ daily_limit = 2
    /\ Len(pending_emails) = 3
    /\ obs.exhausted
    /\ total_sent = 2

(***************************************************************************)
(* C7  One retry on transient failure.  When the first transport send for  *)
(* a recipient fails with a disconnect-class error (SMTPServerDisconnected)*)
(* the SMTP script makes exactly one reconnect and then exactly one        *)
(* re-send; a re-send that succeeds gives the recipient a 'sent' record    *)
(* and raises the account's count by exactly 1; no recipient gets more     *)
(* than two send calls or more than one reconnect.  The code tests the     *)
(* text of str(e), which never holds the class name, so a disconnect       *)
(* reported as "Server not connected" is not retried; and when _reconnect  *)
(* raises no re-send is made.                                              *)
(***************************************************************************)
FirstSendDisconnected ==
    /\ backend = "smtp"
    /\ obs.first_fail = "transport"
    /\ obs.first_class = "SMTPServerDisconnected"

C7_OneRetry ==
    /\ obs.attempts <= 2
    /\ obs.transport_calls <= 2
    /\ obs.reconnects <= 1
    /\ (pc = "record" /\ FirstSendDisconnected) =>
          /\ obs.reconnects = 1
          /\ obs.attempts = 2
    /\ (pc = "pace" /\ FirstSendDisconnected /\ success) =>
          /\ log_file.lines[Len(log_file.lines)]
                 = LogRow(email_data.email, account_name, "sent", Ok)
          /\ DictGet(send_counts, account_name, 0) = obs.count_before + 1

(***************************************************************************)
(* C8  No retry on non-transient failure (the claim as stated).  When the  *)
(* first attempt fails because the attachment is missing, or with a        *)
(* transport error that is not classified transient, there is no reconnect *)
(* and no second send, and for a missing attachment the transport is not   *)
(* called.  The code retries a missing attachment whose path holds the     *)
(* word "Connection".                                                      *)
(***************************************************************************)
C8_NoRetryOnNonTransient ==
    ( \/ obs.first_fail = "missing"
      \/ (obs.first_fail = "transport" /\ ~IsTransient(obs.first_result)) ) =>
        /\ pc # "reconnect"
        /\ obs.reconnects = 0
        /\ obs.attempts = 1
        /\ obs.first_fail = "missing" => obs.transport_calls = 0

(***************************************************************************)
(* C9  Write-before-next ordering.  Whenever the transport is about to be  *)
(* called for a recipient, every earlier recipient of the run has its      *)
(* record in the ledger file, in order, none is waiting in the buffer, and *)
(* if the run has sent anything the quota store holds the counts in        *)
(* memory.                                                                 *)
(***************************************************************************)
C9_WriteBeforeNext ==
    pc \in {"send", "reconnect", "resend"} =>
        /\ DataRows(log_buffer) = <<>>
        /\ Len(DataRows(RunLines)) = idx - 1
        /\ \A k \in 1..(idx - 1) :
               DataRows(RunLines)[k][1] = pending_emails[k].email
        /\ total_sent > 0 =>
               /\ progress_file.kind = "pickle"
               /\ progress_file.counts = send_counts

\* the second recipient is about to be sent after the first was sent
C9_Witness ==
    /\ pc = "send"
    /\ idx = 2
    /\ total_sent = 1

(***************************************************************************)
(* C10  Daily reset on load.  When a run begins, every count is the        *)
(* persisted count if the quota store is dated today, and zero, with no    *)
(* entry carried over, if it is dated another day or does not exist; and   *)
(* load_progress raises only on a store that open(..., 'wb') left empty.   *)
(***************************************************************************)
AtRunStart == pc = "select" /\ idx = 1 /\ obs.processed = 0

C10_DailyReset ==
    /\ AtRunStart =>
          IF progress_file.kind = "pickle" /\ progress_file.date = today
          THEN /\ \A n \in DictKeys(progress_file.counts) :
                      DictGet(send_counts, n, 0) = DictGet(progress_file.counts, n, 0)
               /\ \A n \in DictKeys(send_counts) \ DictKeys(progress_file.counts) :
                      DictGet(send_counts, n, 1) = 0 /\ n \in accounts
          ELSE /\ DictKeys(send_counts) = accounts
               /\ \A i \in DOMAIN send_counts : send_counts[i][2] = 0
    /\ obs.load_error => progress_file.kind = "truncated"

\* a run that begins on another day than the store's, which held counts
C10_Witness ==
    /\ AtRunStart
    /\ progress_file.kind = "pickle"
    /\ progress_file.date # today
    /\ \E i \in DOMAIN progress_file.counts : progress_file.counts[i][2] > 0

(***************************************************************************)
(* C11  Accounts that failed authentication are out of the pool.  Whenever *)
(* the loop is about to select, get_available_account returns None or an   *)
(* account that logged in in this run and has a connection; it never       *)
(* raises, and never returns a name known from the quota store only.  The  *)
(* code takes the minimum over send_counts, which still holds the names    *)
(* loaded from the store, and raises KeyError on self.accounts[name].      *)
(***************************************************************************)
C11_AuthenticatedPool ==
    /\ (pc = "select" /\ idx <= Len(pending_emails)) =>
          LET got == get_available_account(send_counts, daily_limit, accounts)
          IN  got = None \/ (got \in accounts /\ got \in DOMAIN connections)
    /\ pc \in {"send", "reconnect", "resend", "record"} =>
          account_name \in accounts /\ account_name \in DOMAIN connections

(***************************************************************************)
(* C12  Clean cancellation.  After a stop request has ended the process,   *)
(* every recipient the transport accepted in that run has its 'sent'       *)
(* record in the ledger and the quota store is a complete record.          *)
(* The script handles no signal: the process ends at the statement it was  *)
(* executing, with the attempt half recorded.                              *)
(***************************************************************************)
C12_CleanCancellation ==
    (pc = "dead" /\ obs.last_exit \in {"killed", "killed_unflushed"}) =>
        /\ obs.delivered \subseteq SentRecords(Len(log_file.lines))
        /\ progress_file.kind # "truncated"

(***************************************************************************)
(* C13  Long-pause cadence.  The session counter counts every processed    *)
(* recipient, sent or failed, since the previous long break (or the run's  *)
(* start); the long break is slept after the k-th processed recipient      *)
(* exactly when k is a multiple of emails_per_session, and the counter is  *)
(* 0 again after it.                                                       *)
(***************************************************************************)
Paced == IF pc = "pace" THEN obs.processed - 1 ELSE obs.processed

LastLongBreak ==
    IF obs.long_after = {}
    THEN 0
    ELSE CHOOSE k \in obs.long_after : \A j \in obs.long_after : j <= k

C13_LongPauseCadence ==
    InRun =>
        /\ obs.processed + (IF pc = "flush" THEN 1 ELSE 0) = total_sent + total_failed
        /\ obs.long_after = { k \in 1..Paced : k % emails_per_session = 0 }
        /\ session_count = obs.processed - LastLongBreak
        /\ (pc = "select" /\ obs.pause = "long") => session_count = 0

\* a sent and a failed recipient, the long break after the second, and the
\* third recipient processed with the counter counting from 0 again
C13_Witness ==
    /\ pc = "pace"
    /\ obs.processed = 3
    /\ obs.long_after = {2}
    /\ session_count = 1
    /\ total_failed >= 1
    /\ total_sent >= 1

(***************************************************************************)
(* C14  Inter-message delay after every attempt.  After every processed    *)
(* recipient the normal [min_delay, max_delay] delay is slept, the long    *)
(* break being slept in addition.  In the code the delay is the else       *)
(* branch of the long-break test: after each emails_per_session-th         *)
(* recipient only the long break is slept.                                 *)
(***************************************************************************)
C14_DelayAfterEveryAttempt ==
    InRun => obs.normal_after = 1..Paced

(***************************************************************************)
(* C15  Summary accounting.  When a run ends by completion or by capacity  *)
(* exhaustion, the summary's Sent is the number of 'sent' records the run  *)
(* appended, Failed the number of 'failed' records, Remaining the number   *)
(* of pending recipients send_email was never called for, and the three    *)
(* add up to the size of the pending list computed at the run's start.     *)
(***************************************************************************)
Remaining == Len(pending_emails) - total_sent - total_failed

RowsWith(status) ==
    SelectSeq(DataRows(RunLines), LAMBDA line : line[3] = <<status>>)

C15_SummaryAccounting ==
    pc = "done" =>
        /\ total_sent = Len(RowsWith("sent"))
        /\ total_failed = Len(RowsWith("failed"))
        /\ Remaining = Len(pending_emails) - Len(obs.attempted)
        /\ Remaining >= 0
        /\ total_sent + total_failed + Remaining = obs.start_pending

\* a run with a sent and a failed recipient that stopped on exhaustion
C15_Witness ==
    /\ pc = "done"
    /\ obs.exhausted
    /\ total_sent >= 1
    /\ total_failed >= 1
    /\ Remaining >= 1

(***************************************************************************)
(* C20  Input order.  Within a run the pending list is the recipient list  *)
(* with the already-sent recipients removed, in the list's order; the      *)
(* recipients send_email is called for are a prefix of the pending list,   *)
(* in its order, and none is attempted twice in the run.                   *)
(***************************************************************************)
C20_InputOrder ==
    InRun =>
        /\ pending_emails = SelectSeq(email_list, LAMBDA e : e.email \notin sent_emails)
        /\ Len(obs.attempted) <= Len(pending_emails)
        /\ \A k \in DOMAIN obs.attempted : obs.attempted[k] = pending_emails[k].email
        /\ \A i, j \in DOMAIN obs.attempted : i < j => obs.attempted[i] # obs.attempted[j]
        /\ Len(obs.attempted) = IF pc \in {"select", "send", "close", "done"}
                                THEN idx - 1 ELSE idx

\* a later run: an already-sent recipient was removed and two were attempted
C20_Witness ==
    /\ InRun
    /\ run >= 2
    /\ SentAtStart # {}
    /\ Len(obs.attempted) >= 2

(***************************************************************************)
(* C16  Remaining capacity is clamped.  For every quota state the printed  *)
(* capacity is the sum over the known accounts of max(0, daily_limit -     *)
(* count): never negative, and an account over the limit takes nothing     *)
(* from what the others contribute.  The code sums daily_limit - count     *)
(* with no clamp.                                                          *)
(***************************************************************************)
RECURSIVE ClampedCapacity(_, _)
ClampedCapacity(counts, limit) ==
    IF counts = <<>>
    THEN 0
    ELSE (IF Head(counts)[2] >= limit THEN 0 ELSE limit - Head(counts)[2])
             + ClampedCapacity(Tail(counts), limit)

C16_CapacityClamped ==
    pc = "reported" =>
        /\ obs.capacity >= 0
        /\ obs.capacity = ClampedCapacity(send_counts, daily_limit)

(***************************************************************************)
(* C17  Atomic quota-store update.  Whatever the point at which a process  *)
(* ends, the quota store the next run's load_progress reads is a complete  *)
(* record (or absent, before the first update), and load_progress never    *)
(* raises on it.  save_progress opens the store with 'wb', which empties   *)
(* it, before pickle.dump writes the new record.                           *)
(***************************************************************************)
C17_AtomicQuotaStore ==
    /\ pc \in Stopped => progress_file.kind \in {"absent", "pickle"}
    /\ ~obs.load_error

(***************************************************************************)
(* C18  Persistence failure is fatal.  When a write of the quota store     *)
(* (in record_send) or the flush of the ledger fails, the process ends at  *)
(* that statement: no process goes on after a write of its own failed, so  *)
(* no later pending recipient is attempted.                                *)
(***************************************************************************)
C18_PersistenceFailureFatal ==
    obs.unpersisted =>
        /\ pc = "dead"
        /\ obs.last_exit = "io_error"
        /\ pending_emails = <<>>
        /\ obs.attempted = <<>>

\* a run that had delivered a message and ended on a failed write
C18_Witness ==
    /\ obs.unpersisted
    /\ pc = "dead"
    /\ obs.delivered # {}

(***************************************************************************)
(* C19  Configuration is validated at startup.  With a daily limit that is *)
(* not positive the run is rejected before anything happens: the loop is   *)
(* never entered, the transport is never called, and neither the ledger    *)
(* nor the quota store is created or written.  The code checks none of its *)
(* settings: with daily_limit = 0 it opens the ledger, writes the header   *)
(* row, reports that all accounts have reached their limit and ends as a   *)
(* normal run.                                                             *)
(***************************************************************************)
C19_ConfigValidated ==
    daily_limit <= 0 =>
        /\ ~InRun
        /\ obs.last_exit # "normal"
        /\ obs.transported = {}
        /\ log_file = NoLog
        /\ progress_file = NoStore

(***************************************************************************)
(* C21  Count/date coherence across midnight.  In a run during which the   *)
(* date has changed, the counts used for selection are the sends made      *)
(* since the change, and a quota record written under the new date holds   *)
(* no more than those.  The code reads the date in load_progress only:     *)
(* after midnight it goes on with the counts of the day before and         *)
(* save_progress writes them under the new date.                           *)
(***************************************************************************)
RECURSIVE TotalCount(_)
TotalCount(counts) ==
    IF counts = <<>> THEN 0 ELSE Head(counts)[2] + TotalCount(Tail(counts))

C21_CountDateCoherence ==
    (pc \in Running /\ obs.start_day # today) =>
        /\ pc = "select" => TotalCount(send_counts) = obs.sends_today
        /\ (progress_file.kind = "pickle" /\ progress_file.date = today) =>
               TotalCount(progress_file.counts) <= obs.sends_today

(***************************************************************************)
(* C22  Failed recipients stay pending.  The pending set of a run is       *)
(* exactly the recipient list minus the e-mails that had a 'sent' record   *)
(* in the ledger when the run began: every recipient with only 'failed'    *)
(* records or with none is pending, and no recipient with a 'sent' record  *)
(* is.  After a process ended before its first flush the ledger has no     *)
(* header row, the code reads no record as 'sent', and recipients with a   *)
(* 'sent' record are pending again.                                        *)
(***************************************************************************)
Recipients == { email_list[i].email : i \in DOMAIN email_list }

C22_FailedStayPending ==
    InRun => PendingSet = Recipients \ SentAtStart

(***************************************************************************)
(* C23  Ledger/quota correspondence.  No step changes or removes a line of *)
(* the ledger; and after every loop iteration of a run the ledger holds    *)
(* one record of this run per attempted recipient, in order, and none for  *)
(* a recipient not attempted, and for every account the rise of its count  *)
(* since the run began is the number of 'sent' records of this run that    *)
(* name it.                                                                *)
(***************************************************************************)
SentRowsNaming(a) ==
    SelectSeq(DataRows(RunLines),
              LAMBDA line : line[3] = <<"sent">> /\ line[2] = <<a>>)

C23_AfterIteration ==
    pc \in {"select", "close", "done"} =>
        /\ Len(DataRows(RunLines)) = Len(obs.attempted)
        /\ \A k \in DOMAIN obs.attempted : DataRows(RunLines)[k][1] = obs.attempted[k]
        /\ \A a \in DictKeys(send_counts) :
               DictGet(send_counts, a, 0) - DictGet(obs.loaded, a, 0)
                   = Len(SentRowsNaming(a))
        /\ TotalCount(send_counts) - TotalCount(obs.loaded) = Len(RowsWith("sent"))

C23_AppendOnly ==
    /\ Len(log_file'.lines) >= Len(log_file.lines)
    /\ SubSeq(log_file'.lines, 1, Len(log_file.lines)) = log_file.lines

C23_LedgerQuotaCorrespondence == [] C23_AfterIteration /\ [][C23_AppendOnly]_vars

\* a run that sent from two accounts and left a recipient unattempted
C23_Witness ==
    /\ pc = "done"
    /\ obs.exhausted
    /\ total_sent = 2
    /\ Len(SentRowsNaming("a1")) = 1
    /\ Len(SentRowsNaming("a2")) = 1

(***************************************************************************)
(* C24  Balance invariant.  In every state of a run the spread of the      *)
(* counts (greatest minus least) is at most the greater of 1 and the       *)
(* spread when the run began; so when all accounts began with equal        *)
(* counts, any two counts differ by at most 1, whatever the interleaving   *)
(* of successful and failed sends.                                         *)
(***************************************************************************)
Spread(counts) ==
    IF counts = <<>>
    THEN 0
    ELSE LET values == { counts[i][2] : i \in DOMAIN counts }
         IN  (CHOOSE v \in values : \A w \in values : w <= v)
                 - (CHOOSE v \in values : \A w \in values : v <= w)

C24_Balance ==
    InRun =>
        /\ Spread(send_counts) <= (IF Spread(obs.loaded) > 1 THEN Spread(obs.loaded) ELSE 1)
        /\ Spread(obs.loaded) = 0 =>
               \A i, j \in DOMAIN send_counts :
                   send_counts[i][2] - send_counts[j][2] <= 1

\* two accounts that began equal, a failed and two successful sends later
C24_Witness ==
    /\ InRun
    /\ Len(send_counts) = 2
    /\ Spread(obs.loaded) = 0
    /\ total_sent >= 2
    /\ total_failed >= 1
    /\ Spread(send_counts) = 0

(***************************************************************************)
(* C25  Reconnect failure is a per-recipient failure.  When the first send *)
(* is retried and _reconnect itself raises, no second send is made, the    *)
(* recipient gets a 'failed' record whose detail is the reconnect error,   *)
(* no count and no quota record changes, the account keeps the connection  *)
(* it had, and the loop goes on to the next recipient with an account      *)
(* still selectable.                                                       *)
(***************************************************************************)
ReconnectFailed == obs.reconnects = 1 /\ ~obs.reconnect_ok

ReconnectFailedRow == LogRow(email_data.email, account_name, "failed", result)

C25_State ==
    (pc \in {"record", "flush", "pace"} /\ ReconnectFailed) =>
        /\ obs.attempts = 1
        /\ ~success
        /\ result \in ReconnectErrors
        /\ DictGet(send_counts, account_name, 0) = obs.count_before
        /\ account_name \in accounts
        /\ connections[account_name] = obs.conn_before
        /\ pc = "flush" => log_buffer[Len(log_buffer)] = ReconnectFailedRow
        /\ pc = "pace" => log_file.lines[Len(log_file.lines)] = ReconnectFailedRow

C25_Step ==
    (pc \in {"reconnect", "record", "flush", "pace"} /\ pc' # "dead"
        /\ obs'.reconnects = 1 /\ ~obs'.reconnect_ok) =>
        /\ send_counts' = send_counts
        /\ progress_file' = progress_file
        /\ pc = "pace" =>
              /\ pc' = "select"
              /\ idx' = idx + 1
              /\ idx' <= Len(pending_emails) =>
                    get_available_account(send_counts', daily_limit, accounts')
                        \notin {None, KeyError}

C25_ReconnectFailure == [] C25_State /\ [][C25_Step]_vars

\* the reconnect raised, the recipient was recorded, the next one is being sent
C25_Witness ==
    /\ pc = "send"
    /\ idx >= 2
    /\ total_failed >= 1
    /\ log_file.lines[Len(log_file.lines)][3] = <<"failed">>
    /\ log_file.lines[Len(log_file.lines)][4] \in ReconnectErrors

(***************************************************************************)
(* C26  Run termination.  A run whose process is not killed and whose      *)
(* writes do not fail ends at its summary, by completion of the pending    *)
(* list or by capacity exhaustion, and never by an exception raised in the *)
(* loop; it processes each pending recipient at most once, with at most    *)
(* two transport calls each, and sends no more than the capacity printed   *)
(* at its start.  A run in which get_available_account raises KeyError     *)
(* ends in the loop and never reaches the summary.                         *)
(***************************************************************************)
C26_RunTermination ==
    /\ (pc = "dead" /\ ~obs.load_error) =>
           obs.last_exit \in {"killed", "killed_unflushed", "io_error"}
    /\ pc = "done" => (obs.exhausted \/ idx = Len(pending_emails) + 1)
    /\ InRun =>
           /\ Len(obs.attempted) <= Len(pending_emails)
           /\ obs.processed <= Len(obs.attempted)
           /\ obs.transport_calls <= 2
           /\ total_sent <= obs.capacity

====
